---- MODULE Spec2Model ----
(***************************************************************************)
(* A model of the AS3 validator (src/src/main.rs): the data tree AS3Data,  *)
(* the schema tree AS3Validator, the conversion of an external JSON value  *)
(* to AS3Data and AS3Validator::validate. Spec runs one call as one step;  *)
(* SpecConc runs several calls on one shared validator, a node at a step.  *)
(*                                                                         *)
(* Numbers are scaled: i64/u64 have IntBits bits, an f64 has a mantissa of *)
(* MantBits bits, and an f64 value is held as a whole number of            *)
(* 1/FracDen units (so FracDen * n is the float n.0).                      *)
(* Strings are sequences of one-character strings; a pattern is a sequence *)
(* of tokens.                                                              *)
(***************************************************************************)
EXTENDS Integers, Sequences, FiniteSets, TLC

VARIABLES pc, json, validator, data, outcome, prev, calls, yaml

vars == <<pc, json, validator, data, outcome, prev, calls, yaml>>

-----------------------------------------------------------------------------
(* Bounds of the model *)

IntBits == 5

MantBits == 3

FracDen == 2

MaxLen == 2

RECURSIVE Pow2(_)
Pow2(k) == IF k <= 0 THEN 1 ELSE 2 * Pow2(k - 1)

I64Max == Pow2(IntBits - 1) - 1

I64Min == 0 - Pow2(IntBits - 1)

U64Max == Pow2(IntBits) - 1

-----------------------------------------------------------------------------
(* Number conversions *)

Abs(n) == IF n < 0 THEN 0 - n ELSE n

\* The exponent e with |a| / 2^e below 2^MantBits
RECURSIVE Shift(_)
Shift(a) == IF a < Pow2(MantBits) THEN 0 ELSE 1 + Shift(a \div 2)

\* `n as f64`: the nearest float (ties to even), in whole units
RoundToF64(n) ==
    LET a == Abs(n)
        e == Shift(a)
        q == a \div Pow2(e)
        r == a % Pow2(e)
        up == e > 0 /\ (2 * r > Pow2(e) \/ (2 * r = Pow2(e) /\ q % 2 = 1))
        m == (IF up THEN q + 1 ELSE q) * Pow2(e)
    IN IF n < 0 THEN 0 - m ELSE m

\* `*number as f64` of an i64 (or u64), as an f64 value in 1/FracDen units
IntAsF64(n) == RoundToF64(n) * FracDen

-----------------------------------------------------------------------------
(* AS3Data *)

DObj(f) == [tag |-> "Object", fields |-> f]

DStr(s) == [tag |-> "String", s |-> s]

DMap(k, v) == [tag |-> "Map", KeyType |-> k, ValueType |-> v]

DBool(b) == [tag |-> "Boolean", b |-> b]

DInt(n) == [tag |-> "Integer", n |-> n]

DDec(x) == [tag |-> "Decimal", x |-> x]

DList(items) == [tag |-> "List", items |-> items]

(* AS3Validator. An Object holds its fields as the sequence in which its
   HashMap iterates them; an Option is the empty set or a singleton. *)

VObj(entries) == [tag |-> "Object", entries |-> entries]

VStr(regex) == [tag |-> "String", regex |-> regex]

VInt(minimum) == [tag |-> "Integer", minimum |-> minimum]

VDec(minimum) == [tag |-> "Decimal", minimum |-> minimum]

VList(item) == [tag |-> "List", item |-> item]

(* AS3ValidationError and the outcome of a call *)

TypeError(expected, got) == [tag |-> "TypeError", expected |-> expected, got |-> got]

MissingKey(key) == [tag |-> "MissingKey", key |-> key]

RegexError(word, regex) == [tag |-> "RegexError", word |-> word, regex |-> regex]

Minimum(number, minimum) == [tag |-> "Minimum", number |-> number, minimum |-> minimum]

Ok == [kind |-> "Ok"]

Err(e) == [kind |-> "Err", err |-> e]

Panicked == [kind |-> "Panic"]

NoOutcome == [kind |-> "None"]

NoData == [tag |-> "None"]

NoJson == [j |-> "None"]

NoYaml == [y |-> "None"]

NoValidator == [tag |-> "None"]

-----------------------------------------------------------------------------
(* Regex::new and Regex::is_match on the token fragment
   "^", "[A-Z]", "[a-z]", "(" and literal characters *)

Upper == {"F", "T"}

Lower == {"f", "o"}

\* Regex::new(regex) is Ok: an opened group is never closed in this fragment
RegexCompiles(regex) == \A i \in 1..Len(regex) : regex[i] # "("

TokenMatches(tok, ch) ==
    CASE tok = "[A-Z]" -> ch \in Upper
      [] tok = "[a-z]" -> ch \in Lower
      [] OTHER -> tok = ch

\* re.is_match(string): an unanchored search unless the pattern starts with ^
is_match(regex, string) ==
    LET anchored == Len(regex) > 0 /\ regex[1] = "^"
        body == IF anchored THEN Tail(regex) ELSE regex
        starts == IF anchored THEN {1} ELSE 1..(Len(string) + 1)
    IN \E st \in starts :
          /\ st + Len(body) - 1 <= Len(string)
          /\ \A j \in 1..Len(body) : TokenMatches(body[j], string[st + j - 1])

-----------------------------------------------------------------------------
(* AS3Validator::validate *)

\* The vector of results, every element computed, then its first Err if any
Collect(res) ==
    IF \E i \in 1..Len(res) : res[i].kind = "Panic" THEN Panicked
    ELSE IF \E i \in 1..Len(res) : res[i].kind = "Err"
    THEN LET i == CHOOSE i \in 1..Len(res) :
                     /\ res[i].kind = "Err"
                     /\ \A j \in 1..(i - 1) : res[j].kind # "Err"
         IN res[i]
    ELSE Ok

\* A faulty variant of validateInteger: the minimum is exclusive
validateIntegerExclusive(minimum, number) ==
    IF minimum = {} THEN Ok
    ELSE LET m == CHOOSE m \in minimum : TRUE
         IN IF m >= number THEN Err(Minimum(IntAsF64(number), IntAsF64(m))) ELSE Ok

validateInteger(minimum, number) ==
    IF minimum = {} THEN Ok
    ELSE LET m == CHOOSE m \in minimum : TRUE
         IN IF m > number THEN Err(Minimum(IntAsF64(number), IntAsF64(m))) ELSE Ok

validateDecimal(minimum, number) ==
    IF minimum = {} THEN Ok
    ELSE LET m == CHOOSE m \in minimum : TRUE
         IN IF m > number THEN Err(Minimum(number, m)) ELSE Ok

\* A faulty variant of validateString: the error carries the pattern in both fields
validateStringSwapped(regex, string) ==
    IF regex = {} THEN Ok
    ELSE LET re == CHOOSE re \in regex : TRUE
         IN IF ~RegexCompiles(re) THEN Panicked
            ELSE IF ~is_match(re, string) THEN Err(RegexError(re, re))
            ELSE Ok

validateString(regex, string) ==
    IF regex = {} THEN Ok
    ELSE LET re == CHOOSE re \in regex : TRUE
         IN IF ~RegexCompiles(re) THEN Panicked
            ELSE IF ~is_match(re, string) THEN Err(RegexError(string, re))
            ELSE Ok

\* A faulty variant of Mismatch: a Decimal is compared with an Integer minimum
MismatchCoercing(self, d) ==
    IF self.tag = "Integer" /\ d.tag = "Decimal"
    THEN validateDecimal({IntAsF64(m) : m \in self.minimum}, d.x)
    ELSE Err(TypeError(self, d))

\* The catch-all arm
Mismatch(self, d) == Err(TypeError(self, d))

RECURSIVE validate(_, _)

\* A faulty variant of validateField: a field absent from the data passes
validateFieldLenient(e, data_inner) ==
    IF e.key \in DOMAIN data_inner
    THEN validate(e.val, data_inner[e.key])
    ELSE Ok

\* A faulty variant of validateField: the error of an absent field does not
\* carry the field's name
validateFieldUnnamed(e, data_inner) ==
    IF e.key \in DOMAIN data_inner
    THEN validate(e.val, data_inner[e.key])
    ELSE Err(MissingKey(""))

\* The closure mapped over the validator's fields
validateField(e, data_inner) ==
    IF e.key \in DOMAIN data_inner
    THEN validate(e.val, data_inner[e.key])
    ELSE Err(MissingKey(e.key))

\* A faulty variant of validateObject: a field of the data that is not declared is an error
validateObjectStrict(validator_inner, data_inner) ==
    LET declared == {validator_inner[i].key : i \in 1..Len(validator_inner)}
    IN IF \E k \in DOMAIN data_inner : k \notin declared
       THEN Err(MissingKey(CHOOSE k \in DOMAIN data_inner : k \notin declared))
       ELSE Collect([i \in 1..Len(validator_inner) |->
                        validateField(validator_inner[i], data_inner)])

\* The (Object, Object) arm: the closure mapped over the validator's fields in
\* their iteration order, collected, then the first Err
validateObject(validator_inner, data_inner) ==
    Collect([i \in 1..Len(validator_inner) |-> validateField(validator_inner[i], data_inner)])

\* The (List, List) arm
validateList(items_type, items) ==
    Collect([i \in 1..Len(items) |-> validate(items_type, items[i])])

validate(self, d) ==
    CASE self.tag = "Object" /\ d.tag = "Object" -> validateObject(self.entries, d.fields)
      [] self.tag = "Integer" /\ d.tag = "Integer" -> validateInteger(self.minimum, d.n)
      [] self.tag = "Decimal" /\ d.tag = "Decimal" -> validateDecimal(self.minimum, d.x)
      [] self.tag = "String" /\ d.tag = "String" -> validateString(self.regex, d.s)
      [] self.tag = "List" /\ d.tag = "List" -> validateList(self.item, d.items)
      [] OTHER -> Mismatch(self, d)

-----------------------------------------------------------------------------
(* External values (serde_json::Value) and AS3Data::from *)

JNull == [j |-> "Null"]

JBool(b) == [j |-> "Bool", b |-> b]

JString(s) == [j |-> "String", s |-> s]

\* A Number is PosInt(u64), NegInt(i64 below zero) or Float(f64)
JNumber(form, v) == [j |-> "Number", form |-> form, v |-> v]

JArray(elems) == [j |-> "Array", elems |-> elems]

JObject(members) == [j |-> "Object", members |-> members]

\* Number::as_i64: the empty set is None
as_i64(inner) ==
    CASE inner.form = "PosInt" -> IF inner.v <= I64Max THEN {inner.v} ELSE {}
      [] inner.form = "NegInt" -> {inner.v}
      [] OTHER -> {}

\* Number::as_f64
as_f64(inner) ==
    IF inner.form = "Float" THEN inner.v ELSE IntAsF64(inner.v)

\* A faulty variant of from_number: a float without a fractional part becomes an Integer
from_number_integral(inner) ==
    IF as_i64(inner) # {} THEN DInt(CHOOSE n \in as_i64(inner) : TRUE)
    ELSE IF inner.form = "Float" /\ inner.v % FracDen = 0
              /\ inner.v \div FracDen >= I64Min /\ inner.v \div FracDen <= I64Max
    THEN DInt(inner.v \div FracDen)
    ELSE DDec(as_f64(inner))

\* The Number arm of from
from_number(inner) ==
    IF as_i64(inner) # {} THEN DInt(CHOOSE n \in as_i64(inner) : TRUE)
    ELSE DDec(as_f64(inner))

RECURSIVE from(_)
\* AS3Data::from(&json); NoData stands for the panic on Null
from(value) ==
    CASE value.j = "Object" ->
            LET inner == [k \in DOMAIN value.members |-> from(value.members[k])]
            IN IF \E k \in DOMAIN inner : inner[k] = NoData THEN NoData ELSE DObj(inner)
      [] value.j = "Array" ->
            LET inner == [i \in 1..Len(value.elems) |-> from(value.elems[i])]
            IN IF \E i \in 1..Len(inner) : inner[i] = NoData THEN NoData ELSE DList(inner)
      [] value.j = "String" -> DStr(value.s)
      [] value.j = "Number" -> from_number(value)
      [] value.j = "Bool" -> DBool(value.b)
      [] OTHER -> NoData

-----------------------------------------------------------------------------
(* The inputs: bounded sets of validators, data trees and external values *)

\* Every sequence that lists each element of S once
RECURSIVE Perms(_)
Perms(S) ==
    IF S = {} THEN {<<>>}
    ELSE UNION {{<<x>> \o p : p \in Perms(S \ {x})} : x \in S}

\* Object validators over a subset of keys, in every iteration order
ObjValidators(keys, children) ==
    UNION {{VObj([i \in 1..Len(p) |-> [key |-> p[i], val |-> c[i]]]) :
                p \in Perms(ks), c \in [1..Cardinality(ks) -> children]} :
           ks \in SUBSET keys}

ObjData(keys, children) ==
    UNION {{DObj(f) : f \in [ks -> children]} : ks \in SUBSET keys}

ListsOf(items) == UNION {[1..k -> items] : k \in 0..MaxLen}

Fo == <<"F", "o">>

fo == <<"f", "o">>

oF == <<"o", "F">>

Words == {<<>>, Fo, fo, oF}

\* "^[A-Z][a-z]" of the tests, an unanchored "[A-Z]", and the unclosed group "("
PatternCap == <<"^", "[A-Z]", "[a-z]">>

PatternAnyCap == <<"[A-Z]">>

PatternBad == <<"(">>

Patterns == {PatternCap, PatternAnyCap, PatternBad}

BigOdd == Pow2(MantBits) + 1

IntSamples == {I64Min, 0 - BigOdd, 0 - 1, 0, 1, 2, Pow2(MantBits), BigOdd, BigOdd + 1, I64Max}

IntMinimums == {2, BigOdd, BigOdd + 1}

DecSamples == {0 - FracDen, 0, 2 * FracDen - 1, 2 * FracDen, 2 * FracDen + 1, BigOdd * FracDen}

DecMinimums == {2 * FracDen, 2 * FracDen + 1}

LeafValidators ==
    {VStr({})} \cup {VStr({p}) : p \in Patterns}
        \cup {VInt({})} \cup {VInt({m}) : m \in IntMinimums}
        \cup {VDec({})} \cup {VDec({m}) : m \in DecMinimums}

LeafData ==
    {DStr(w) : w \in Words} \cup {DInt(n) : n \in IntSamples}
        \cup {DDec(x) : x \in DecSamples} \cup {DBool(b) : b \in BOOLEAN}
        \cup {DMap(DStr(fo), DInt(1)), DObj(<<>>), DList(<<>>)}

\* The fields of the Object family
FieldValidators == {VInt({2}), VStr({PatternBad})}

FieldData == {DInt(1), DInt(2), DStr(fo)}

Keys == {"a", "b", "c"}

\* The nested family: an Object or a List below an Object
InnerValidators ==
    {VInt({2}), VList(VInt({2}))} \cup ObjValidators({"a", "b"}, {VInt({2})})

InnerData ==
    {DInt(1), DDec(2 * FracDen + 1), DList(<<DInt(2), DInt(1)>>),
     DObj([k \in {"a", "b"} |-> DInt(2)])}
        \cup ObjData({"a", "b"}, {DInt(1)})

\* The List family
ItemValidators ==
    {VInt({2}), VStr({PatternCap}), VStr({PatternBad}), VObj(<<[key |-> "a", val |-> VInt({2})]>>)}

ItemData == {DInt(1), DInt(2), DStr(fo), DStr(Fo), DObj([k \in {"a"} |-> DInt(1)])}

\* Composite validators against leaves, and leaf validators against composites
CompositeValidators ==
    {VObj(<<>>), VObj(<<[key |-> "a", val |-> VInt({2})]>>), VList(VInt({2}))}

CompositeData == {DObj([k \in {"a"} |-> DInt(1)]), DList(<<DInt(1)>>)}

\* The pairs of a validator and a data tree built directly
DirectPairs ==
    (LeafValidators \X LeafData)
        \cup (CompositeValidators \X (LeafData \cup CompositeData))
        \cup (LeafValidators \X CompositeData)
        \cup (ObjValidators(Keys, FieldValidators) \X ObjData(Keys, FieldData))
        \cup (ObjValidators({"a", "b"}, InnerValidators) \X ObjData({"a", "b"}, InnerData))
        \cup ({VList(i) : i \in ItemValidators} \X {DList(l) : l \in ListsOf(ItemData)})

\* External values
JsonNumbers ==
    {JNumber("PosInt", n) : n \in {0, 2, BigOdd, I64Max, I64Max + 1, U64Max}}
        \cup {JNumber("NegInt", n) : n \in {0 - 1, I64Min}}
        \cup {JNumber("Float", x) : x \in {0 - FracDen, 2 * FracDen - 1, 2 * FracDen, 2 * FracDen + 1}}

JsonLeaves == {JNull, JBool(TRUE), JBool(FALSE)} \cup {JString(w) : w \in Words} \cup JsonNumbers

JsonSmall == {JNull, JNumber("PosInt", 2), JNumber("Float", 2 * FracDen), JString(fo)}

JsonInner ==
    JsonSmall \cup {JArray(l) : l \in ListsOf({JNull, JNumber("PosInt", 1)})}
        \cup {JObject(f) : f \in [{"a"} -> {JNull, JNumber("PosInt", 1)}]}

JsonInputs ==
    JsonLeaves \cup {JArray(l) : l \in ListsOf(JsonSmall)}
        \cup UNION {{JObject(f) : f \in [ks -> JsonInner]} : ks \in SUBSET {"a", "b"}}

\* The validators run against converted values
JsonValidators ==
    {VInt({2}), VDec({2 * FracDen}), VList(VInt({2})), VStr({PatternBad}),
     VObj(<<[key |-> "a", val |-> VInt({2})], [key |-> "b", val |-> VList(VInt({}))]>>)}

-----------------------------------------------------------------------------
(* validator.validate(&AS3Data::from(&json)), as the tests run it *)

\* Validator trees equal to v (PartialEq): the same fields in any iteration order
RECURSIVE Content(_)
Content(v) ==
    CASE v.tag = "Object" ->
            [tag |-> "Object",
             fields |-> [k \in {v.entries[i].key : i \in 1..Len(v.entries)} |->
                            Content(v.entries[CHOOSE i \in 1..Len(v.entries) :
                                                  v.entries[i].key = k].val)]]
      [] v.tag = "List" -> VList(Content(v.item))
      [] OTHER -> v

\* Every instance of the validator v: one per iteration order of each Object
RECURSIVE Instances(_)
Instances(v) ==
    CASE v.tag = "Object" ->
            LET n == Len(v.entries)
                all == UNION {Instances(v.entries[j].val) : j \in 1..n}
            IN UNION {{VObj([i \in 1..n |-> [key |-> v.entries[p[i]].key, val |-> c[i]]]) :
                          c \in {c \in [1..n -> all] :
                                   \A i \in 1..n : c[i] \in Instances(v.entries[p[i]].val)}} :
                      p \in Perms(1..n)}
      [] v.tag = "List" -> {VList(i) : i \in Instances(v.item)}
      [] OTHER -> {v}

Init ==
    /\ outcome = NoOutcome
    /\ prev = NoOutcome
    /\ calls = <<>>
    /\ yaml = NoYaml
    /\ \/ /\ pc = "external"
          /\ json \in JsonInputs
          /\ validator \in JsonValidators
          /\ data = NoData
       \/ /\ pc = "ready"
          /\ json = NoJson
          /\ \E p \in DirectPairs : validator = p[1] /\ data = p[2]

\* AS3Data::from(&json): a Null anywhere aborts the process
Convert ==
    /\ pc = "external"
    /\ data' = from(json)
    /\ pc' = IF from(json) = NoData THEN "aborted" ELSE "ready"
    /\ UNCHANGED <<json, validator, outcome, prev, calls, yaml>>

\* validator.validate(&data): the unwrap of a failed Regex::new aborts the process
Validate ==
    /\ pc = "ready"
    /\ outcome' = validate(validator, data)
    /\ pc' = IF validate(validator, data) = Panicked THEN "aborted" ELSE "done"
    /\ UNCHANGED <<json, validator, data, prev, calls, yaml>>

\* The same validator built once more (a HashMap of its own, with an iteration
\* order of its own) and the same data validated again
ValidateAgain ==
    /\ pc = "done"
    /\ \E v2 \in Instances(validator) :
          /\ validator' = v2
          /\ outcome' = validate(v2, data)
    /\ prev' = [kind |-> "Call", validator |-> validator, outcome |-> outcome]
    /\ pc' = "again"
    /\ UNCHANGED <<json, data, calls, yaml>>

Next == Convert \/ Validate \/ ValidateAgain

Spec == Init /\ [][Next]_vars

-----------------------------------------------------------------------------
(* Several calls of validate on one shared validator, each on a value tree of
   its own, a node at a step: a frame holds the pair of nodes of one
   activation, the index of the next field or element, and the results
   collected so far. *)

NumCalls == 2

Frame(v, d) == [v |-> v, d |-> d, idx |-> 1, res |-> <<>>]

\* The activation maps over fields or elements: (Object, Object) or (List, List)
Composite(f) ==
    \/ f.v.tag = "Object" /\ f.d.tag = "Object"
    \/ f.v.tag = "List" /\ f.d.tag = "List"

\* The number of fields or elements the activation maps over
Width(f) == IF f.v.tag = "Object" THEN Len(f.v.entries) ELSE Len(f.d.items)

TopOf(c) == c.stack[Len(c.stack)]

\* A faulty variant of Deliver: the result of a call is kept in one place that
\* every finished call reads
DeliverShared(cs, t, r) ==
    LET c == cs[t]
        rest == SubSeq(c.stack, 1, Len(c.stack) - 1)
    IN IF r = Panicked \/ rest = <<>>
       THEN [u \in DOMAIN cs |->
                IF u = t \/ cs[u].stack = <<>>
                THEN [cs[u] EXCEPT !.stack = <<>>, !.result = r]
                ELSE cs[u]]
       ELSE [cs EXCEPT ![t].stack =
                Append(SubSeq(rest, 1, Len(rest) - 1),
                       [rest[Len(rest)] EXCEPT !.res = Append(@, r), !.idx = @ + 1])]

\* The activation on top of call t's stack returns r to the closure that
\* called it, or to the caller of validate; a panic unwinds the whole call
Deliver(cs, t, r) ==
    LET c == cs[t]
        rest == SubSeq(c.stack, 1, Len(c.stack) - 1)
    IN IF r = Panicked \/ rest = <<>>
       THEN [cs EXCEPT ![t].stack = <<>>, ![t].result = r]
       ELSE [cs EXCEPT ![t].stack =
                Append(SubSeq(rest, 1, Len(rest) - 1),
                       [rest[Len(rest)] EXCEPT !.res = Append(@, r), !.idx = @ + 1])]

Running(t) == calls[t].stack # <<>>

\* A scalar arm or the catch-all arm
VisitLeaf(t) ==
    /\ Running(t)
    /\ ~Composite(TopOf(calls[t]))
    /\ calls' = Deliver(calls, t, validate(TopOf(calls[t]).v, TopOf(calls[t]).d))
    /\ UNCHANGED <<pc, json, validator, data, outcome, prev, yaml>>

\* The closure on a field the data holds: validator_value.validate(value_from_key)
EnterField(t) ==
    /\ Running(t)
    /\ LET f == TopOf(calls[t])
       IN /\ f.v.tag = "Object" /\ f.d.tag = "Object"
          /\ f.idx <= Width(f)
          /\ f.v.entries[f.idx].key \in DOMAIN f.d.fields
          /\ calls' = [calls EXCEPT ![t].stack =
                          Append(@, Frame(f.v.entries[f.idx].val,
                                          f.d.fields[f.v.entries[f.idx].key]))]
    /\ UNCHANGED <<pc, json, validator, data, outcome, prev, yaml>>

\* The closure on a field the data does not hold
MissingField(t) ==
    /\ Running(t)
    /\ LET f == TopOf(calls[t])
       IN /\ f.v.tag = "Object" /\ f.d.tag = "Object"
          /\ f.idx <= Width(f)
          /\ f.v.entries[f.idx].key \notin DOMAIN f.d.fields
          /\ calls' = [calls EXCEPT ![t].stack[Len(calls[t].stack)] =
                          [f EXCEPT !.res = Append(@, Err(MissingKey(f.v.entries[f.idx].key))),
                                    !.idx = @ + 1]]
    /\ UNCHANGED <<pc, json, validator, data, outcome, prev, yaml>>

\* The closure on an element: items_type.validate(item)
EnterItem(t) ==
    /\ Running(t)
    /\ LET f == TopOf(calls[t])
       IN /\ f.v.tag = "List" /\ f.d.tag = "List"
          /\ f.idx <= Width(f)
          /\ calls' = [calls EXCEPT ![t].stack = Append(@, Frame(f.v.item, f.d.items[f.idx]))]
    /\ UNCHANGED <<pc, json, validator, data, outcome, prev, yaml>>

\* The vector is complete: its first Err, or Ok
Finish(t) ==
    /\ Running(t)
    /\ Composite(TopOf(calls[t]))
    /\ TopOf(calls[t]).idx > Width(TopOf(calls[t]))
    /\ calls' = Deliver(calls, t, Collect(TopOf(calls[t]).res))
    /\ UNCHANGED <<pc, json, validator, data, outcome, prev, yaml>>

ConcValidators ==
    {VObj(<<[key |-> "a", val |-> VInt({2})], [key |-> "b", val |-> VStr({PatternCap})]>>),
     VObj(<<[key |-> "b", val |-> VStr({PatternCap})], [key |-> "a", val |-> VInt({2})]>>),
     VObj(<<[key |-> "a", val |-> VInt({2})], [key |-> "b", val |-> VStr({PatternBad})]>>),
     VObj(<<[key |-> "a", val |-> VObj(<<[key |-> "a", val |-> VInt({2})]>>)]>>),
     VList(VInt({2})),
     VStr({PatternCap})}

ConcData ==
    {DObj([k \in {"a", "b"} |-> IF k = "a" THEN DInt(1) ELSE DStr(fo)]),
     DObj([k \in {"a", "b"} |-> IF k = "a" THEN DInt(2) ELSE DStr(Fo)]),
     DObj([k \in {"a"} |-> DObj([j \in {"a"} |-> DInt(1)])]),
     DObj(<<>>),
     DList(<<DInt(2), DInt(1)>>),
     DStr(fo)}

InitConc ==
    /\ pc = "concurrent"
    /\ json = NoJson
    /\ data = NoData
    /\ outcome = NoOutcome
    /\ prev = NoOutcome
    /\ yaml = NoYaml
    /\ validator \in ConcValidators
    /\ \E ds \in [1..NumCalls -> ConcData] :
          calls = [t \in 1..NumCalls |->
                      [d |-> ds[t], stack |-> <<Frame(validator, ds[t])>>, result |-> NoOutcome]]

NextConc ==
    \/ \E t \in DOMAIN calls : VisitLeaf(t)
    \/ \E t \in DOMAIN calls : EnterField(t)
    \/ \E t \in DOMAIN calls : MissingField(t)
    \/ \E t \in DOMAIN calls : EnterItem(t)
    \/ \E t \in DOMAIN calls : Finish(t)

SpecConc == InitConc /\ [][NextConc]_vars

-----------------------------------------------------------------------------
(* The Schema Builder: a validator from a declarative document
   { Root: node }, each node a mapping with the discriminator +Type. *)

YMapping(m) == [y |-> "Mapping", map |-> m]

YString(s) == [y |-> "String", str |-> s]

YNumber(n) == [y |-> "Number", num |-> n]

RootMarker == "Root"

Discriminator == "+Type"

BuildError == [tag |-> "BuildError"]

\* A schema node of the type t with the further entries m
YNode(t, m) == YMapping((Discriminator :> YString(t)) @@ m)

NoEntries == [k \in {} |-> NoYaml]

\* The optional constraint entry k of a scalar node: unset when absent
Constraint(n, k, field) ==
    IF k \in DOMAIN n.map THEN {n.map[k][field]} ELSE {}

\* The constraint entry k of the node is not of the kind y
Malformed(n, k, y) == k \in DOMAIN n.map /\ n.map[k].y # y

RECURSIVE buildNode(_)
buildNode(n) ==
    IF n.y # "Mapping" THEN BuildError
    ELSE IF Discriminator \notin DOMAIN n.map THEN BuildError
    ELSE IF n.map[Discriminator].y # "String" THEN BuildError
    ELSE LET t == n.map[Discriminator].str
             others == DOMAIN n.map \ {Discriminator}
             built == [k \in others |-> buildNode(n.map[k])]
         IN CASE t = "Object" ->
                    IF \E k \in others : built[k] = BuildError THEN BuildError
                    ELSE LET p == CHOOSE q \in Perms(others) : TRUE
                         IN VObj([i \in 1..Len(p) |-> [key |-> p[i], val |-> built[p[i]]]])
              [] t = "String" ->
                    IF Malformed(n, "regex", "String") THEN BuildError
                    ELSE VStr(Constraint(n, "regex", "str"))
              [] t = "Integer" ->
                    IF Malformed(n, "minimum", "Number") THEN BuildError
                    ELSE VInt(Constraint(n, "minimum", "num"))
              [] t = "Decimal" ->
                    IF Malformed(n, "minimum", "Number") THEN BuildError
                    ELSE VDec({m * FracDen : m \in Constraint(n, "minimum", "num")})
              [] t = "List" ->
                    IF Cardinality(others) # 1 THEN BuildError
                    ELSE LET item == built[CHOOSE k \in others : TRUE]
                         IN IF item = BuildError THEN BuildError ELSE VList(item)
              [] OTHER -> BuildError

build(config) ==
    IF config.y # "Mapping" THEN BuildError
    ELSE IF RootMarker \notin DOMAIN config.map THEN BuildError
    ELSE buildNode(config.map[RootMarker])

Document(node) == YMapping(RootMarker :> node)

YStringNode == YNode("String", NoEntries)

YIntegerNode == YNode("Integer", NoEntries)

\* The node of vehicles and of Truks: name, maker (String) and year (Integer)
YVehicle == YNode("Object", ("a" :> YStringNode) @@ ("b" :> YIntegerNode))

SchemaNodes ==
    {YStringNode, YIntegerNode, YNode("Decimal", NoEntries),
     YNode("String", "regex" :> YString(PatternCap)),
     YNode("Integer", "minimum" :> YNumber(2)),
     YNode("Decimal", "minimum" :> YNumber(1)),
     YNode("Object", NoEntries),
     YVehicle,
     YNode("Object", ("a" :> YVehicle) @@ ("b" :> YIntegerNode)),
     YNode("Object", ("a" :> YVehicle) @@ ("c" :> YVehicle)),
     YNode("List", "items" :> YVehicle),
     YNode("Object", "a" :> YNode("List", "items" :> YVehicle)),
     YNode("Object", ("a" :> YNode("Integer", "minimum" :> YNumber(2))) @@ ("b" :> YStringNode))}

MalformedNodes ==
    {YString("Object"),
     YMapping("a" :> YStringNode),
     YNode("Boolean", NoEntries),
     YMapping(Discriminator :> YNumber(1)),
     YNode("List", NoEntries),
     YNode("List", ("a" :> YStringNode) @@ ("b" :> YStringNode)),
     YNode("Object", "a" :> YNode("Boolean", NoEntries)),
     YNode("String", "regex" :> YNumber(1))}

Documents ==
    {Document(n) : n \in SchemaNodes \cup MalformedNodes}
        \cup {YString("Root"), YMapping("a" :> YStringNode)}

VehicleData ==
    {DObj(("a" :> DStr(fo)) @@ ("b" :> DInt(1))),
     DObj("b" :> DInt(1)),
     DObj("a" :> DStr(fo)),
     DObj(("a" :> DInt(1)) @@ ("b" :> DInt(1)))}

BuilderData ==
    VehicleData
        \cup {DObj(("a" :> x) @@ ("b" :> DInt(2))) : x \in VehicleData}
        \cup {DObj(("a" :> x) @@ ("c" :> y)) :
                 x \in VehicleData, y \in {DObj(("a" :> DStr(Fo)) @@ ("b" :> DInt(2)))}}
        \cup {DList(<<x, DObj(("a" :> DStr(Fo)) @@ ("b" :> DInt(2)))>>) : x \in VehicleData}
        \cup {DObj("a" :> DList(<<DObj(("a" :> DStr(fo)) @@ ("b" :> DInt(1)))>>)),
              DObj(<<>>), DList(<<>>), DStr(fo), DStr(Fo), DInt(1), DInt(2), DDec(1), DDec(FracDen)}

InitBuild ==
    /\ pc = "config"
    /\ yaml \in Documents
    /\ data \in BuilderData
    /\ validator = NoValidator
    /\ json = NoJson
    /\ outcome = NoOutcome
    /\ prev = NoOutcome
    /\ calls = <<>>

\* AS3Validator::from(&yaml): the fields of a built Object are kept in a
\* HashMap, in any iteration order
Build ==
    /\ pc = "config"
    /\ IF build(yaml) = BuildError
       THEN validator' = BuildError /\ pc' = "rejected"
       ELSE validator' \in Instances(build(yaml)) /\ pc' = "ready"
    /\ UNCHANGED <<json, data, outcome, prev, calls, yaml>>

NextBuild == Build \/ Validate

SpecBuild == InitBuild /\ [][NextBuild]_vars

-----------------------------------------------------------------------------
(* Vocabulary of the claims *)

\* validate has been called on validator and data (it returned or it panicked)
Called == outcome # NoOutcome

DeclaredKeys(v) == {v.entries[i].key : i \in 1..Len(v.entries)}

ChildOf(v, k) == v.entries[CHOOSE i \in 1..Len(v.entries) : v.entries[i].key = k].val

\* The declared field k is a key of d and its child validator returns Ok
FieldPasses(v, d, k) ==
    k \in DOMAIN d.fields /\ validate(ChildOf(v, k), d.fields[k]) = Ok

ObjectCall == Called /\ validator.tag = "Object" /\ data.tag = "Object"

-----------------------------------------------------------------------------
(* C1: an Object validator returns Ok on an Object value exactly when every
   declared field is a key of the value and validates Ok; when one declared
   field is absent and every other declared field passes, the result is
   MissingKey with that field's name. *)
C1_ObjectOkIffFieldsPass ==
    ObjectCall =>
        /\ (outcome = Ok) <=> (\A k \in DeclaredKeys(validator) : FieldPasses(validator, data, k))
        /\ \A k \in DeclaredKeys(validator) :
              (/\ k \notin DOMAIN data.fields
               /\ \A k2 \in DeclaredKeys(validator) \ {k} : FieldPasses(validator, data, k2))
                  => outcome = Err(MissingKey(k))

\* Two fields pass, the third is absent, and its name is reported
C1_Witness ==
    /\ ObjectCall
    /\ Len(validator.entries) = 3
    /\ \E k \in DeclaredKeys(validator) :
          /\ k \notin DOMAIN data.fields
          /\ \A k2 \in DeclaredKeys(validator) \ {k} : FieldPasses(validator, data, k2)
          /\ outcome = Err(MissingKey(k))

-----------------------------------------------------------------------------
(* Fields of the data that the validator does not declare *)

\* One value of every variant of AS3Data
ExtraValues ==
    {DBool(TRUE), DStr(fo), DInt(1), DDec(1), DList(<<DInt(1)>>),
     DObj([k \in {"a"} |-> DInt(1)]), DMap(DStr(fo), DInt(1))}

ExtraKeys == Keys \cup {"x"}

Merge(f, g) == [k \in DOMAIN f \cup DOMAIN g |-> IF k \in DOMAIN g THEN g[k] ELSE f[k]]

\* d with the field k |-> x added where v does not declare k and d does not
\* hold it: at the root if here, and at every Object reached below it through
\* Object validators if below
RECURSIVE AddField(_, _, _, _, _, _)
AddField(v, d, k, x, here, below) ==
    IF v.tag = "Object" /\ d.tag = "Object"
    THEN LET kids == [f \in DOMAIN d.fields |->
                         IF f \in DeclaredKeys(v)
                         THEN AddField(ChildOf(v, f), d.fields[f], k, x, below, below)
                         ELSE d.fields[f]]
         IN IF here /\ k \notin DeclaredKeys(v) /\ k \notin DOMAIN d.fields
            THEN DObj(Merge(kids, [f \in {k} |-> x]))
            ELSE DObj(kids)
    ELSE d

WithExtras(v, d) ==
    {AddField(v, d, k, x, m[1], m[2]) :
        k \in ExtraKeys, x \in ExtraValues,
        m \in {<<TRUE, TRUE>>, <<TRUE, FALSE>>, <<FALSE, TRUE>>}}

(* C2: adding fields the validator does not declare to an Object value, at
   any level reached through Object validators and with a child value of any
   variant, never changes the result of validate. *)
C2_UndeclaredFieldsIgnored ==
    ObjectCall => \A d2 \in WithExtras(validator, data) : validate(validator, d2) = outcome

\* An Object below an Object is reached, fields are added at both levels, and
\* the call fails
C2_Witness ==
    /\ ObjectCall
    /\ outcome.kind = "Err"
    /\ \E k \in DeclaredKeys(validator) \cap DOMAIN data.fields :
          /\ ChildOf(validator, k).tag = "Object"
          /\ data.fields[k].tag = "Object"
          /\ \E d2 \in WithExtras(validator, data) :
                /\ DOMAIN d2.fields # DOMAIN data.fields
                /\ DOMAIN d2.fields[k].fields # DOMAIN data.fields[k].fields
                /\ \E x \in DOMAIN d2.fields : d2.fields[x].tag = "Boolean"

-----------------------------------------------------------------------------
(* Several failing fields of one Object *)

FieldResult(v, d, i) == validateField(v.entries[i], d.fields)

FailingFields(v, d) == {i \in 1..Len(v.entries) : FieldResult(v, d, i).kind = "Err"}

FirstFailing(v, d) ==
    CHOOSE i \in FailingFields(v, d) : \A j \in FailingFields(v, d) : i <= j

(* C3: when two or more declared fields of an Object validator fail (missing,
   or their child validator returns an error), validate returns exactly one
   error, that of the failing field that comes first in the iteration order. *)
C3_FirstFailingFieldReported ==
    (ObjectCall /\ Cardinality(FailingFields(validator, data)) >= 2)
        => outcome = FieldResult(validator, data, FirstFailing(validator, data))

\* The same, for the calls in which no field's validation panics
C3_FirstFailingFieldReportedUnlessPanic ==
    (/\ ObjectCall
     /\ Cardinality(FailingFields(validator, data)) >= 2
     /\ \A i \in 1..Len(validator.entries) : FieldResult(validator, data, i) # Panicked)
        => outcome = FieldResult(validator, data, FirstFailing(validator, data))

-----------------------------------------------------------------------------
(* C4 (as amended): the minimum is inclusive for Integer and Decimal
   validators. A value n >= m validates Ok, a value n < m fails with Minimum;
   for a Decimal the two fields are n and m, for an Integer they are n and m
   converted to f64, which rounds an integer that no f64 holds. With no
   minimum every value of the kind validates Ok. *)
C4_MinimumInclusiveAsF64 ==
    /\ (Called /\ validator.tag = "Integer" /\ data.tag = "Integer") =>
          /\ validator.minimum = {} => outcome = Ok
          /\ \A m \in validator.minimum :
                /\ data.n >= m => outcome = Ok
                /\ data.n < m =>
                      outcome = Err(Minimum(RoundToF64(data.n) * FracDen, RoundToF64(m) * FracDen))
    /\ (Called /\ validator.tag = "Decimal" /\ data.tag = "Decimal") =>
          /\ validator.minimum = {} => outcome = Ok
          /\ \A m \in validator.minimum :
                /\ data.x >= m => outcome = Ok
                /\ data.x < m => outcome = Err(Minimum(data.x, m))

\* An Integer one below its minimum is rejected
C4_Witness ==
    /\ Called
    /\ validator.tag = "Integer"
    /\ data.tag = "Integer"
    /\ validator.minimum = {data.n + 1}
    /\ outcome.kind = "Err"
    /\ outcome.err.tag = "Minimum"

(* C4 as stated: the two fields of Minimum are exactly n and m, for an
   Integer too. *)
C4_MinimumCarriesExactValues ==
    /\ (Called /\ validator.tag = "Integer" /\ data.tag = "Integer") =>
          /\ validator.minimum = {} => outcome = Ok
          /\ \A m \in validator.minimum :
                /\ data.n >= m => outcome = Ok
                /\ data.n < m => outcome = Err(Minimum(data.n * FracDen, m * FracDen))
    /\ (Called /\ validator.tag = "Decimal" /\ data.tag = "Decimal") =>
          /\ validator.minimum = {} => outcome = Ok
          /\ \A m \in validator.minimum :
                /\ data.x >= m => outcome = Ok
                /\ data.x < m => outcome = Err(Minimum(data.x, m))

-----------------------------------------------------------------------------
(* Validator and value of different variants *)

\* The pairs of a validator node and a value node of another variant that
\* validate(v, d) meets
RECURSIVE MismatchPairs(_, _)
MismatchPairs(v, d) ==
    CASE v.tag # d.tag -> {<<v, d>>}
      [] v.tag = "Object" ->
            UNION {MismatchPairs(ChildOf(v, k), d.fields[k]) :
                      k \in DeclaredKeys(v) \cap DOMAIN d.fields}
      [] v.tag = "List" -> UNION {MismatchPairs(v.item, d.items[i]) : i \in 1..Len(d.items)}
      [] OTHER -> {}

IsTypeError(o) == o.kind = "Err" /\ o.err.tag = "TypeError"

(* C5: a validator node paired with a value node of another variant yields
   TypeError whose expected is that validator node and whose got is that
   value node, the nodes at the point of the mismatch and not the roots; an
   Integer validator with a minimum reports TypeError, never Minimum, for a
   Decimal value. *)
C5_MismatchIsTypeError ==
    Called =>
        /\ validator.tag # data.tag => outcome = Err(TypeError(validator, data))
        /\ IsTypeError(outcome) =>
              <<outcome.err.expected, outcome.err.got>> \in MismatchPairs(validator, data)
        /\ \A p \in MismatchPairs(validator, data) :
              validate(p[1], p[2]) = Err(TypeError(p[1], p[2]))

\* A Decimal below the root meets an Integer validator with a minimum that it
\* satisfies, and the call reports the two nodes, not the roots
C5_Witness ==
    /\ Called
    /\ IsTypeError(outcome)
    /\ outcome.err.expected = VInt({2})
    /\ outcome.err.got = DDec(2 * FracDen + 1)
    /\ validator.tag = "Object"
    /\ data.tag = "Object"

-----------------------------------------------------------------------------
(* String validators *)

\* What the two patterns of the model mean
Matches(re, w) ==
    CASE re = PatternCap -> Len(w) >= 2 /\ w[1] \in Upper /\ w[2] \in Lower
      [] re = PatternAnyCap -> \E i \in 1..Len(w) : w[i] \in Upper

(* C6: a String validator without a pattern validates every String value Ok;
   with a pattern, a String value that matches validates Ok and one that does
   not match fails with RegexError carrying that string and that pattern.
   Matching is defined for the patterns that Regex::new accepts. *)
C6_RegexErrorCarriesWordAndPattern ==
    (Called /\ validator.tag = "String" /\ data.tag = "String") =>
        /\ validator.regex = {} => outcome = Ok
        /\ \A re \in validator.regex \cap {PatternCap, PatternAnyCap} :
              /\ Matches(re, data.s) => outcome = Ok
              /\ ~Matches(re, data.s) => outcome = Err(RegexError(data.s, re))

\* A string without a capital first letter is rejected by the pattern of the tests
C6_Witness ==
    /\ Called
    /\ validator = VStr({PatternCap})
    /\ data = DStr(fo)
    /\ outcome = Err(RegexError(fo, PatternCap))

-----------------------------------------------------------------------------
(* List validators *)

ItemResult(v, d, i) == validate(v.item, d.items[i])

FailingItems(v, d) == {i \in 1..Len(d.items) : ItemResult(v, d, i).kind = "Err"}

ListCall == Called /\ validator.tag = "List" /\ data.tag = "List"

(* C7: a List validator validates the empty list Ok, validates a list Ok
   exactly when every element validates Ok against the item validator, and
   otherwise returns the error of the lowest-index failing element, however
   later elements fail. *)
C7_ListFirstFailure ==
    ListCall =>
        /\ data.items = <<>> => outcome = Ok
        /\ (outcome = Ok) <=> (\A i \in 1..Len(data.items) : ItemResult(validator, data, i) = Ok)
        /\ FailingItems(validator, data) # {} =>
              outcome = ItemResult(validator, data,
                                   CHOOSE i \in FailingItems(validator, data) :
                                       \A j \in FailingItems(validator, data) : i <= j)

\* The same, for the calls in which no element's validation panics
C7_ListFirstFailureUnlessPanic ==
    (ListCall /\ \A i \in 1..Len(data.items) : ItemResult(validator, data, i) # Panicked) =>
        /\ data.items = <<>> => outcome = Ok
        /\ (outcome = Ok) <=> (\A i \in 1..Len(data.items) : ItemResult(validator, data, i) = Ok)
        /\ FailingItems(validator, data) # {} =>
              outcome = ItemResult(validator, data,
                                   CHOOSE i \in FailingItems(validator, data) :
                                       \A j \in FailingItems(validator, data) : i <= j)

-----------------------------------------------------------------------------
(* Two calls with equal inputs *)

\* An outcome up to PartialEq: the iteration order of a HashMap is not compared
OutcomeContent(o) ==
    IF IsTypeError(o)
    THEN Err(TypeError(Content(o.err.expected), o.err.got))
    ELSE o

(* C8: two calls of validate with equal inputs return the same result, also
   when two or more declared fields fail with different errors. *)
C8_EqualInputsEqualResults ==
    (pc = "again" /\ Content(validator) = Content(prev.validator))
        => OutcomeContent(outcome) = OutcomeContent(prev.outcome)

-----------------------------------------------------------------------------
(* C9: validate completes with Ok or with one error of TypeError, MissingKey,
   RegexError and Minimum; it never aborts the process, also when a String
   validator declares a pattern that is no regular expression. *)
C9_ValidateNeverAborts ==
    Called =>
        \/ outcome = Ok
        \/ /\ outcome.kind = "Err"
           /\ outcome.err.tag \in {"TypeError", "MissingKey", "RegexError", "Minimum"}

-----------------------------------------------------------------------------
(* Conversion of external numbers *)

Converted == pc # "external" /\ json # NoJson

(* C10 (as amended): an external number in integer form that fits a 64-bit
   signed integer converts to Integer with that value; every other external
   number, one in floating-point form such as 20.0 included, converts to
   Decimal. *)
C10_IntegerFormIsInteger ==
    (Converted /\ json.j = "Number") =>
        IF json.form \in {"PosInt", "NegInt"} /\ json.v >= I64Min /\ json.v <= I64Max
        THEN data = DInt(json.v)
        ELSE data.tag = "Decimal"

\* The float 2.0 has been converted, to a Decimal
C10_Witness ==
    /\ Converted
    /\ json = JNumber("Float", 2 * FracDen)
    /\ data = DDec(2 * FracDen)

\* The number is a whole number that a 64-bit signed integer holds
IsWholeI64(n) ==
    IF n.form = "Float"
    THEN n.v % FracDen = 0 /\ n.v \div FracDen >= I64Min /\ n.v \div FracDen <= I64Max
    ELSE n.v >= I64Min /\ n.v <= I64Max

(* C10 as stated: a number without a fractional part that fits a 64-bit
   signed integer converts to Integer, in floating-point form too. *)
C10_WholeNumberIsInteger ==
    (Converted /\ json.j = "Number") =>
        IF IsWholeI64(json) THEN data.tag = "Integer" ELSE data.tag = "Decimal"

-----------------------------------------------------------------------------
(* Concurrent calls on a shared validator *)

Returned(t) == calls[t].stack = <<>> /\ calls[t].result # NoOutcome

(* C11: validate never modifies the shared validator or a value tree, and
   under every interleaving of the calls each call returns the result it
   returns when run alone on its own value tree. *)
C11_ConcurrentCallsIndependent ==
    /\ [](\A t \in DOMAIN calls :
            Returned(t) => calls[t].result = validate(validator, calls[t].d))
    /\ [][/\ validator' = validator
          /\ \A t \in DOMAIN calls : calls'[t].d = calls[t].d]_vars

\* The second call has returned Ok while the first, which will fail, is still
\* inside its Object with an error collected
C11_Witness ==
    /\ pc = "concurrent"
    /\ Returned(2)
    /\ calls[2].result = Ok
    /\ Len(calls[1].stack) = 1
    /\ calls[1].stack[1].res # <<>>
    /\ calls[1].stack[1].res[1].kind = "Err"

-----------------------------------------------------------------------------
(* The Schema Builder and the validator it builds *)

TypeOf(n) == n.map[Discriminator].str

\* The entries of a schema node other than the discriminator
Declared(n) == DOMAIN n.map \ {Discriminator}

\* No scalar node of the schema carries a constraint entry
RECURSIVE Unconstrained(_)
Unconstrained(n) ==
    IF TypeOf(n) \in {"Object", "List"}
    THEN \A k \in Declared(n) : Unconstrained(n.map[k])
    ELSE Declared(n) = {}

\* The data holds every declared field, each of the declared kind
RECURSIVE HoldsDeclared(_, _)
HoldsDeclared(n, d) ==
    CASE TypeOf(n) = "Object" ->
            /\ d.tag = "Object"
            /\ \A k \in Declared(n) :
                  k \in DOMAIN d.fields /\ HoldsDeclared(n.map[k], d.fields[k])
      [] TypeOf(n) = "List" ->
            /\ d.tag = "List"
            /\ \A i \in 1..Len(d.items) :
                  HoldsDeclared(n.map[CHOOSE k \in Declared(n) : TRUE], d.items[i])
      [] OTHER -> d.tag = TypeOf(n)

\* The data with one declared field removed, at the root or below it, and
\* the name of the field
RECURSIVE Removals(_, _)
Removals(n, d) ==
    CASE TypeOf(n) = "Object" ->
            {[d |-> DObj([f \in DOMAIN d.fields \ {k} |-> d.fields[f]]), key |-> k] :
                k \in Declared(n)}
            \cup UNION {{[d |-> DObj([d.fields EXCEPT ![k] = r.d]), key |-> r.key] :
                            r \in Removals(n.map[k], d.fields[k])} : k \in Declared(n)}
      [] TypeOf(n) = "List" ->
            UNION {{[d |-> DList([d.items EXCEPT ![i] = r.d]), key |-> r.key] :
                       r \in Removals(n.map[CHOOSE k \in Declared(n) : TRUE], d.items[i])} :
                   i \in 1..Len(d.items)}
      [] OTHER -> {}

BuiltCall == pc = "done" /\ yaml # NoYaml

(* C12: a validator built from a document { Root: node } whose scalar nodes
   carry no constraint entry returns Ok on data that holds every declared
   field with the declared kind, and MissingKey with the field's name on the
   same data with one declared field removed; fields the document does not
   declare never change the result of the built validator. *)
C12_BuilderRoundTrip ==
    BuiltCall =>
        LET root == yaml.map[RootMarker]
        IN /\ (Unconstrained(root) /\ HoldsDeclared(root, data)) =>
                 /\ outcome = Ok
                 /\ \A r \in Removals(root, data) :
                       validate(validator, r.d) = Err(MissingKey(r.key))
           /\ \A d2 \in WithExtras(validator, data) : validate(validator, d2) = outcome

\* A built Object with an Object field returns Ok on matching data, which has
\* removals at both levels and gains undeclared fields
C12_Witness ==
    /\ BuiltCall
    /\ outcome = Ok
    /\ LET root == yaml.map[RootMarker]
       IN /\ TypeOf(root) = "Object"
          /\ Unconstrained(root)
          /\ HoldsDeclared(root, data)
          /\ \E k \in Declared(root) :
                /\ TypeOf(root.map[k]) = "Object"
                /\ \E r \in Removals(root, data) : k \in DOMAIN r.d.fields /\ r.key # k
                /\ \E r \in Removals(root, data) : k \notin DOMAIN r.d.fields
          /\ \E d2 \in WithExtras(validator, data) : d2 # data

-----------------------------------------------------------------------------
(* Null in the external tree, and the ways a run is aborted *)

\* The external tree holds a Null, at the root or at any depth
RECURSIVE HasNull(_)
HasNull(value) ==
    CASE value.j = "Null" -> TRUE
      [] value.j = "Array" -> \E i \in 1..Len(value.elems) : HasNull(value.elems[i])
      [] value.j = "Object" -> \E k \in DOMAIN value.members : HasNull(value.members[k])
      [] OTHER -> FALSE

\* The Value d is of the shape of the null-free external tree
RECURSIVE Mirrors(_, _)
Mirrors(value, d) ==
    CASE value.j = "Object" ->
            /\ d.tag = "Object"
            /\ DOMAIN d.fields = DOMAIN value.members
            /\ \A k \in DOMAIN value.members : Mirrors(value.members[k], d.fields[k])
      [] value.j = "Array" ->
            /\ d.tag = "List"
            /\ Len(d.items) = Len(value.elems)
            /\ \A i \in 1..Len(value.elems) : Mirrors(value.elems[i], d.items[i])
      [] value.j = "String" -> d = DStr(value.s)
      [] value.j = "Bool" -> d = DBool(value.b)
      [] value.j = "Number" -> d.tag \in {"Integer", "Decimal"}
      [] OTHER -> FALSE

\* Conversion of a tree that holds a Null panics and produces no Value; a
\* null-free tree converts to a Value of the mirrored shape
NullAbortsConversion ==
    Converted =>
        IF HasNull(json)
        THEN pc = "aborted" /\ data = NoData
        ELSE data # NoData /\ Mirrors(json, data)

(* C13: conversion of an external tree that holds a null, at the root or at
   any depth, ends in the unrecoverable failure and produces no Value; every
   null-free tree converts to a Value of the mirrored shape; and a null in
   the external tree is the only condition under which conversion or
   validation ends in the unrecoverable failure. *)
C13_NullIsOnlyUnrecoverable ==
    /\ NullAbortsConversion
    /\ (pc = "aborted" /\ json # NoJson) => HasNull(json)

-----------------------------------------------------------------------------
(* What a call does after its first failure *)

\* In every activation of the call c the only failure collected is the last
\* result collected, and no field or element is being validated after it
StoppedAtFailure(c) ==
    \A j \in 1..Len(c.stack) :
        \A i \in 1..Len(c.stack[j].res) :
            c.stack[j].res[i].kind = "Err" =>
                i = Len(c.stack[j].res) /\ j = Len(c.stack)

(* C14: once a declared field of an Object is found missing or fails, or an
   element of a List fails, no later field or element of that Object or List
   is looked up or validated in the call. *)
C14_StopsAtFirstFailure ==
    \A t \in DOMAIN calls : StoppedAtFailure(calls[t])

\* The call went on after a failure and panicked compiling the pattern of a
\* later field
PanicAfterFailure ==
    /\ validator.tag = "Object"
    /\ \E t \in DOMAIN calls :
          /\ calls[t].result = Panicked
          /\ validate(VObj(SubSeq(validator.entries, 1, 1)), calls[t].d).kind = "Err"

====
